---- MODULE Spec2Model ----
(***************************************************************************)
(* Model of the planet-wars decision engine of src/src/main.rs:            *)
(*   simulate_arrivals  - replay of the expeditions travelling to a planet *)
(*   score              - committed force and cost of a (source, dest) pair*)
(*   next_move          - greedy selection of the moves of one turn        *)
(*                                                                         *)
(* usize values are modelled as integers.  The inputs are small, so no     *)
(* addition comes near the width of usize; a subtraction is modelled as    *)
(* the mathematical difference, so that an underflow shows as a negative   *)
(* number.  Coordinates are integer-valued f64; the f64 distance sqrt(n)   *)
(* is represented by its radicand n and .ceil() by CeilSqrt.               *)
(***************************************************************************)
EXTENDS Integers, Sequences, FiniteSets, TLC

\* ----- Bounds of the checked inputs -----

\* Ship counts of the projection inputs (specification SpecSim)
MaxShips == 5

\* Expeditions of both specifications
MaxTurns == 2
MaxFaction == 2
MaxExpeditions == 2

\* Planner inputs (specification Spec)
MaxPlanets == 3
MaxGarrison == 3
MaxX == 2
MaxY == 1

VARIABLES
    gamestate,             \* the GameState read from one input line
    pc,                    \* position in next_move / simulate_arrivals
    moves,                 \* next_move: the moves pushed so far
    best_move,             \* next_move: Option of (source, dest, (ship_count, score))
    used_planets,          \* next_move: names of the sources already committed
    planet,                \* simulate_arrivals: the planet projected
    relevant_expeditions,  \* simulate_arrivals: sorted expeditions not yet replayed
    owner,                 \* simulate_arrivals: mut owner
    ship_count,            \* simulate_arrivals: mut ship_count
    last_simulated_turn,   \* simulate_arrivals: mut last_simulated_turn
    growth,                \* simulate_arrivals: ships added by the last growth step
    result                 \* simulate_arrivals: the returned (owner, ship_count)

vars == << gamestate, pc, moves, best_move, used_planets, planet,
           relevant_expeditions, owner, ship_count, last_simulated_turn,
           growth, result >>

planVars == << moves, best_move, used_planets >>

simVars == << planet, relevant_expeditions, owner, ship_count,
              last_simulated_turn, growth, result >>

\* ----- Option<usize> -----

None == << >>

Some(v) == << v >>

\* Option::unwrap_or
unwrap_or(opt, default) == IF opt = None THEN default ELSE opt[1]

\* ----- HELPER FUNCTIONS -----

\* The radicand dx*dx + dy*dy of distance_between_planets (its f64 result
\* is the square root of this number).
distance_between_planets_sq(planet1, planet2) ==
    LET dx == planet1.x - planet2.x
        dy == planet1.y - planet2.y
    IN  dx * dx + dy * dy

\* sqrt(n).ceil() as usize, for an integer radicand n >= 0: the least k
\* with k*k >= n.
RECURSIVE CeilSqrtFrom(_, _)
CeilSqrtFrom(n, k) == IF k * k >= n THEN k ELSE CeilSqrtFrom(n, k + 1)

\* Mutant of CeilSqrt: the square root is rounded down.
CeilSqrt_Floor(n) ==
    IF CeilSqrtFrom(n, 0) * CeilSqrtFrom(n, 0) = n
    THEN CeilSqrtFrom(n, 0)
    ELSE CeilSqrtFrom(n, 0) - 1

CeilSqrt(n) == CeilSqrtFrom(n, 0)

\* Mutant of FilterRelevant: the destination is not compared.
FilterRelevant_NoFilter(p, expeditions) == expeditions

\* .iter().filter(|x| x.destination == planet.name).collect()
FilterRelevant(p, expeditions) ==
    SelectSeq(expeditions, LAMBDA x : x.destination = p.name)

\* Insertion of e into a sequence sorted by turns_remaining, after every
\* element whose key is <= the key of e (stable).
RECURSIVE InsertByKey(_, _)
InsertByKey(sorted, e) ==
    IF sorted = << >> THEN << e >>
    ELSE IF Head(sorted).turns_remaining <= e.turns_remaining
         THEN << Head(sorted) >> \o InsertByKey(Tail(sorted), e)
         ELSE << e >> \o sorted

\* Vec::sort_by_key(|x| x.turns_remaining): a stable ascending sort.
RECURSIVE SortFrom(_, _)
SortFrom(sorted, rest) ==
    IF rest = << >> THEN sorted
    ELSE SortFrom(InsertByKey(sorted, Head(rest)), Tail(rest))

\* Mutant of sort_by_key: the list is left in snapshot order.
sort_by_key_Unsorted(expeditions) == expeditions

\* Mutant of sort_by_key: expeditions of equal turns_remaining come out in
\* the reverse of the snapshot order.
sort_by_key_TiesReversed(expeditions) ==
    SortFrom(<< >>, [k \in 1..Len(expeditions) |->
                        expeditions[Len(expeditions) + 1 - k]])

sort_by_key(expeditions) == SortFrom(<< >>, expeditions)

\* The state of the replay before the first expedition.
ReplayInit(p) ==
    [owner |-> unwrap_or(p.owner, 0),
     ship_count |-> p.ship_count,
     last_simulated_turn |-> 0,
     growth |-> 0]

\* Mutant of Growth: planets do not grow.
Growth_None(acc, expedition) == 0

\* Mutant of Growth: unowned planets grow as well.
Growth_Always(acc, expedition) ==
    expedition.turns_remaining - acc.last_simulated_turn

\* The ships added by the growth step of one loop iteration.
Growth(acc, expedition) ==
    IF acc.owner # 0
    THEN expedition.turns_remaining - acc.last_simulated_turn
    ELSE 0

\* Mutant of Arrive: on equal forces the attacker takes the empty planet.
Arrive_TieToAttacker(own, g, expedition) ==
    IF expedition.owner = own
    THEN [owner |-> own, ship_count |-> g + expedition.ship_count]
    ELSE IF g <= expedition.ship_count
         THEN [owner |-> expedition.owner,
               ship_count |-> expedition.ship_count - g]
         ELSE [owner |-> own, ship_count |-> g - expedition.ship_count]

\* Mutant of Arrive: on equal forces the defender keeps the empty planet.
Arrive_TieToDefender(own, g, expedition) ==
    IF expedition.owner = own
    THEN [owner |-> own, ship_count |-> g + expedition.ship_count]
    ELSE IF g < expedition.ship_count
         THEN [owner |-> expedition.owner,
               ship_count |-> expedition.ship_count - g]
         ELSE [owner |-> own, ship_count |-> g - expedition.ship_count]

\* Mutant of Arrive: an expedition reinforces when its owner is the owner
\* the planet had in the snapshot.
Arrive_OriginalOwner(own, g, expedition) ==
    IF expedition.owner = unwrap_or(planet.owner, 0)
    THEN [owner |-> own, ship_count |-> g + expedition.ship_count]
    ELSE IF g < expedition.ship_count
         THEN [owner |-> expedition.owner,
               ship_count |-> expedition.ship_count - g]
         ELSE IF g = expedition.ship_count
              THEN [owner |-> 0, ship_count |-> 0]
              ELSE [owner |-> own, ship_count |-> g - expedition.ship_count]

\* The arrival step, on the ship count g reached after the growth step.
Arrive(own, g, expedition) ==
    IF expedition.owner = own
    THEN [owner |-> own, ship_count |-> g + expedition.ship_count]
    ELSE IF g < expedition.ship_count
         THEN [owner |-> expedition.owner,
               ship_count |-> expedition.ship_count - g]
         ELSE IF g = expedition.ship_count
              THEN [owner |-> 0, ship_count |-> 0]
              ELSE [owner |-> own, ship_count |-> g - expedition.ship_count]

\* One iteration of the loop of simulate_arrivals.
ReplayStep(acc, expedition) ==
    LET gr == Growth(acc, expedition)
        a  == Arrive(acc.owner, acc.ship_count + gr, expedition)
    IN  [owner |-> a.owner,
         ship_count |-> a.ship_count,
         last_simulated_turn |-> expedition.turns_remaining,
         growth |-> gr]

RECURSIVE Replay(_, _)
Replay(acc, expeditions) ==
    IF expeditions = << >> THEN acc
    ELSE Replay(ReplayStep(acc, Head(expeditions)), Tail(expeditions))

\* simulate_arrivals as a function: (owner, ship_count).
simulate_arrivals(p, gs) ==
    LET relevant == sort_by_key(FilterRelevant(p, gs.expeditions))
        final == Replay(ReplayInit(p), relevant)
    IN  << final.owner, final.ship_count >>

\* Mutant of score: a pair that needs every ship of the source is kept.
score_AllShips(source, dest, gs) ==
    LET sim == simulate_arrivals(dest, gs)
        own == sim[1]
        sc  == sim[2]
    IN  IF (sc + 1) > source.ship_count \/ own = 1
        THEN << 0, 0 >>
        ELSE << sc + 1,
                CeilSqrt(distance_between_planets_sq(source, dest)) * (sc + 1) >>

\* Mutant of score: the projected owner is not looked at.
score_AnyOwner(source, dest, gs) ==
    LET sim == simulate_arrivals(dest, gs)
        sc  == sim[2]
    IN  IF (sc + 1) >= source.ship_count
        THEN << 0, 0 >>
        ELSE << sc + 1,
                CeilSqrt(distance_between_planets_sq(source, dest)) * (sc + 1) >>

\* score: (committed ship count, cost); (0, 0) marks a discarded pair.
score(source, dest, gs) ==
    LET sim == simulate_arrivals(dest, gs)
        own == sim[1]
        sc  == sim[2]
    IN  IF (sc + 1) >= source.ship_count \/ own = 1
        THEN << 0, 0 >>
        ELSE << sc + 1,
                CeilSqrt(distance_between_planets_sq(source, dest)) * (sc + 1) >>

\* ----- NEXT MOVE -----

\* state.planets.iter(): the planets are referred to by their position in
\* state.planets (the &Planet of the source).
PlanetRefs(gs) == [i \in 1..Len(gs.planets) |-> i]

\* .filter(|x| x.owner.unwrap_or(0) == 1)
my_planets(gs) ==
    SelectSeq(PlanetRefs(gs), LAMBDA i : unwrap_or(gs.planets[i].owner, 0) = 1)

\* .filter(|x| x.owner.unwrap_or(0) != 1)
other_planets(gs) ==
    SelectSeq(PlanetRefs(gs), LAMBDA i : unwrap_or(gs.planets[i].owner, 0) # 1)

\* itertools::iproduct!(a, b): every pair, a in the outer loop, b in the
\* inner loop.
iproduct(a, b) ==
    [k \in 1..(Len(a) * Len(b)) |->
        << a[((k - 1) \div Len(b)) + 1], b[((k - 1) % Len(b)) + 1] >>]

\* .map(|(s,d)| (s, d, score(s, d, state))).filter(|(_,_,(_,sc))| *sc != 0)
Candidates(sources, gs) ==
    LET pairs  == iproduct(sources, other_planets(gs))
        scored == [k \in DOMAIN pairs |->
                     [source |-> pairs[k][1],
                      dest   |-> pairs[k][2],
                      score  |-> score(gs.planets[pairs[k][1]],
                                       gs.planets[pairs[k][2]], gs)]]
    IN  SelectSeq(scored, LAMBDA c : c.score[2] # 0)

\* Ord on keys, which are tuples of usize of one length: a > b.
RECURSIVE KeyGreater(_, _)
KeyGreater(a, b) ==
    IF a = << >> THEN FALSE
    ELSE IF Head(a) # Head(b) THEN Head(a) > Head(b)
         ELSE KeyGreater(Tail(a), Tail(b))

\* The fold of Iterator::min_by_key: the current element is replaced only
\* by one whose key is strictly smaller, so the first minimum is returned.
RECURSIVE MinIndexFrom(_, _, _)
MinIndexFrom(keys, best, k) ==
    IF k > Len(keys) THEN best
    ELSE MinIndexFrom(keys,
                      IF KeyGreater(keys[best], keys[k]) THEN k ELSE best,
                      k + 1)

\* min_by_key on seq, keys[k] being the key of seq[k].
min_by_key(seq, keys) ==
    IF seq = << >> THEN None
    ELSE Some(seq[MinIndexFrom(keys, 1, 2)])

\* Line 120: the key of the first selection, |x| (*x).2.1 (the cost).
FirstKey(c) == << c.score[2] >>

\* Line 138: the key of the later selections, |x| (*x).2, the pair
\* (ship_count, cost) in lexicographic order.
LoopKey(c) == c.score

\* Lines 117-120.
FirstBestMove(gs) ==
    LET c == Candidates(my_planets(gs), gs)
    IN  min_by_key(c, [k \in DOMAIN c |-> FirstKey(c[k])])

\* Mutant of Unused: committed sources stay in the product.
Unused_KeepAll(sources, used, gs) == sources

\* my_planets.iter().filter(|x| !used_planets.contains(&x.name))
Unused(sources, used, gs) ==
    SelectSeq(sources, LAMBDA i : gs.planets[i].name \notin used)

\* Lines 133-138.
NextBestMove(used, gs) ==
    LET c == Candidates(Unused(my_planets(gs), used, gs), gs)
    IN  min_by_key(c, [k \in DOMAIN c |-> LoopKey(c[k])])

\* Mutant of MkMove: a move carries one ship more for every move already
\* committed towards its destination.
MkMove_Escalating(c, gs) ==
    [origin |-> gs.planets[c.source].name,
     destination |-> gs.planets[c.dest].name,
     ship_count |-> c.score[1]
        + Len(SelectSeq(moves,
                        LAMBDA m : m.destination = gs.planets[c.dest].name))]

\* Lines 125-129.
MkMove(c, gs) ==
    [origin |-> gs.planets[c.source].name,
     destination |-> gs.planets[c.dest].name,
     ship_count |-> c.score[1]]

\* ----- Inputs of the projection (SpecSim) -----

OptionOwners == { None } \cup { Some(f) : f \in 1..MaxFaction }

MkPlanet(n, px, py, o, sc) ==
    [name |-> n, x |-> px, y |-> py, owner |-> o, ship_count |-> sc]

ExpeditionBodies(dests, owners, ships) ==
    [destination : dests, turns_remaining : 0..MaxTurns,
     owner : owners, ship_count : ships]

\* The expedition list given by f; id is the position in the list, origin
\* (never read by the engine) the name after the destination.
MkExpeditions(f) ==
    [i \in DOMAIN f |->
        [id |-> i,
         origin |-> f[i].destination + 1,
         destination |-> f[i].destination,
         turns_remaining |-> f[i].turns_remaining,
         owner |-> f[i].owner,
         ship_count |-> f[i].ship_count]]

\* Two planets; the first one takes every owner and garrison, up to
\* MaxExpeditions expeditions of any owner travel to either of them.
SimSnapshot(gs) ==
    \E o \in OptionOwners, sc \in 0..MaxShips, m \in 0..MaxExpeditions :
        \E f \in [1..m -> ExpeditionBodies(1..2, 0..MaxFaction, 1..MaxShips)] :
            gs = [planets |-> << MkPlanet(1, 0, 0, o, sc),
                                 MkPlanet(2, 1, 1, None, 1) >>,
                  expeditions |-> MkExpeditions(f)]

SimInit ==
    /\ SimSnapshot(gamestate)
    /\ pc = "call"
    /\ moves = << >>
    /\ best_move = None
    /\ used_planets = {}
    /\ planet = None
    /\ relevant_expeditions = << >>
    /\ owner = 0
    /\ ship_count = 0
    /\ last_simulated_turn = 0
    /\ growth = 0
    /\ result = None

\* simulate_arrivals, lines 56-63: filter, sort, initialise the replay.
SimCall(i) ==
    /\ pc = "call"
    /\ planet' = gamestate.planets[i]
    /\ relevant_expeditions' =
           sort_by_key(FilterRelevant(gamestate.planets[i], gamestate.expeditions))
    /\ owner' = ReplayInit(gamestate.planets[i]).owner
    /\ ship_count' = ReplayInit(gamestate.planets[i]).ship_count
    /\ last_simulated_turn' = ReplayInit(gamestate.planets[i]).last_simulated_turn
    /\ growth' = ReplayInit(gamestate.planets[i]).growth
    /\ pc' = "replay"
    /\ UNCHANGED << gamestate, result, planVars >>

\* simulate_arrivals, lines 64-84: one iteration of the for loop.
SimStep ==
    /\ pc = "replay"
    /\ relevant_expeditions # << >>
    /\ LET acc == [owner |-> owner, ship_count |-> ship_count,
                   last_simulated_turn |-> last_simulated_turn,
                   growth |-> growth]
           nxt == ReplayStep(acc, Head(relevant_expeditions))
       IN  /\ owner' = nxt.owner
           /\ ship_count' = nxt.ship_count
           /\ last_simulated_turn' = nxt.last_simulated_turn
           /\ growth' = nxt.growth
    /\ relevant_expeditions' = Tail(relevant_expeditions)
    /\ UNCHANGED << gamestate, pc, planet, result, planVars >>

\* simulate_arrivals, line 85: the loop is over, return the pair.
SimReturn ==
    /\ pc = "replay"
    /\ relevant_expeditions = << >>
    /\ result' = << owner, ship_count >>
    /\ pc' = "returned"
    /\ UNCHANGED << gamestate, planet, relevant_expeditions, owner, ship_count,
                    last_simulated_turn, growth, planVars >>

SimNext ==
    \/ \E i \in 1..Len(gamestate.planets) : SimCall(i)
    \/ SimStep
    \/ SimReturn

SpecSim == SimInit /\ [][SimNext]_vars

\* ----- Inputs of the planner (Spec) -----

Grid == (0..MaxX) \X (0..MaxY)

PlanetBodies(owners, positions) ==
    [pos : positions, owner : owners, ship_count : 0..MaxGarrison]

\* The planet list given by f, named 1..n in list order.
MkPlanets(f) ==
    [i \in DOMAIN f |-> MkPlanet(i, f[i].pos[1], f[i].pos[2],
                                 f[i].owner, f[i].ship_count)]

\* Up to MaxPlanets planets of any owner anywhere on the grid, no
\* expedition in flight.
GridSnapshot(gs) ==
    \E n \in 0..MaxPlanets :
        \E f \in [1..n -> PlanetBodies(OptionOwners, Grid)] :
            gs = [planets |-> MkPlanets(f), expeditions |-> << >>]

\* The cells 0..MaxX + 1 of the row y = 0.
Row == (0..(MaxX + 1)) \X {0}

\* MaxPlanets + 1 planets of any owner in a row, no two in one cell, no
\* expedition in flight.
WideSnapshot(gs) ==
    \E f \in [1..(MaxPlanets + 1) -> PlanetBodies(OptionOwners, Row)] :
        /\ \A i, j \in DOMAIN f : i # j => f[i].pos # f[j].pos
        /\ gs = [planets |-> MkPlanets(f), expeditions |-> << >>]

\* n planets of any owner, the i-th in cell i of the row, and m >= 1
\* expeditions of the factions towards the names 1..MaxPlanets,
\* n + m <= MaxPlanets + 1.
FleetSnapshot(gs) ==
    \E n \in 0..MaxPlanets, m \in 1..MaxExpeditions :
        /\ n + m <= MaxPlanets + 1
        /\ \E f \in [1..n -> [ship_count : 0..MaxGarrison, owner : OptionOwners]],
              e \in [1..m -> ExpeditionBodies(1..MaxPlanets, 1..MaxFaction,
                                              1..MaxGarrison)] :
              gs = [planets |-> [i \in 1..n |->
                                   MkPlanet(i, i - 1, 0, f[i].owner, f[i].ship_count)],
                    expeditions |-> MkExpeditions(e)]

Init ==
    /\ \/ GridSnapshot(gamestate)
       \/ WideSnapshot(gamestate)
       \/ FleetSnapshot(gamestate)
    /\ pc = "start"
    /\ moves = << >>
    /\ best_move = None
    /\ used_planets = {}
    /\ planet = None
    /\ relevant_expeditions = << >>
    /\ owner = 0
    /\ ship_count = 0
    /\ last_simulated_turn = 0
    /\ growth = 0
    /\ result = None

\* next_move, lines 112-113: nothing to attack from, or nothing to attack.
EarlyReturn ==
    /\ pc = "start"
    /\ Len(my_planets(gamestate)) = 0 \/ Len(other_planets(gamestate)) = 0
    /\ moves' = << >>
    /\ pc' = "done"
    /\ UNCHANGED << gamestate, best_move, used_planets, simVars >>

\* next_move, lines 115-122: the first selection.
FirstSelect ==
    /\ pc = "start"
    /\ Len(my_planets(gamestate)) # 0
    /\ Len(other_planets(gamestate)) # 0
    /\ moves' = << >>
    /\ best_move' = FirstBestMove(gamestate)
    /\ used_planets' = {}
    /\ pc' = "loop"
    /\ UNCHANGED << gamestate, simVars >>

\* next_move, lines 124-139: one iteration of the while loop.
Commit ==
    /\ pc = "loop"
    /\ best_move # None
    /\ moves' = Append(moves, MkMove(best_move[1], gamestate))
    /\ used_planets' =
           used_planets \cup { gamestate.planets[best_move[1].source].name }
    /\ best_move' =
           NextBestMove(used_planets \cup { gamestate.planets[best_move[1].source].name },
                        gamestate)
    /\ UNCHANGED << gamestate, pc, simVars >>

\* next_move, line 140: best_move is None, the turn is returned.
Return ==
    /\ pc = "loop"
    /\ best_move = None
    /\ pc' = "done"
    /\ UNCHANGED << gamestate, moves, best_move, used_planets, simVars >>

Next ==
    \/ EarlyReturn
    \/ FirstSelect
    \/ Commit
    \/ Return

Spec == Init /\ [][Next]_vars

\* MaxPlanets + 1 planets, mine or unowned (next_move only tells mine
\* from not mine), the i-th in cell i of the row, no expedition in flight.
RowSnapshot(gs) ==
    \E f \in [1..(MaxPlanets + 1) ->
                [ship_count : 0..MaxGarrison, owner : { None, Some(1) }]] :
        gs = [planets |-> [i \in 1..(MaxPlanets + 1) |->
                             MkPlanet(i, i - 1, 0, f[i].owner, f[i].ship_count)],
              expeditions |-> << >>]

InitRow ==
    /\ RowSnapshot(gamestate)
    /\ pc = "start"
    /\ moves = << >>
    /\ best_move = None
    /\ used_planets = {}
    /\ planet = None
    /\ relevant_expeditions = << >>
    /\ owner = 0
    /\ ship_count = 0
    /\ last_simulated_turn = 0
    /\ growth = 0
    /\ result = None

\* next_move on the snapshots of RowSnapshot, running to its return: a call
\* that can take a step takes one.
SpecFair == InitRow /\ [][Next]_vars /\ WF_vars(Next)

\* ----- Definitions shared by the properties -----

\* The expeditions of the snapshot that travel to the projected planet.
Incoming ==
    SelectSeq(gamestate.expeditions, LAMBDA e : e.destination = planet.name)

\* The planet of the snapshot with the given name (names are unique).
PlanetNamed(n) ==
    gamestate.planets[CHOOSE i \in 1..Len(gamestate.planets) :
                          gamestate.planets[i].name = n]

RefOfName(n) ==
    CHOOSE i \in 1..Len(gamestate.planets) : gamestate.planets[i].name = n

\* project(p): the pair returned by simulate_arrivals on the snapshot.
Project(p) == simulate_arrivals(p, gamestate)

IsMine(p) == unwrap_or(p.owner, 0) = 1

\* The two conditions of a profitable pair: the destination is not
\* projected as mine and its projected garrison + 1 is below the ships of
\* the source.
Profitable(s, d) ==
    /\ Project(d)[1] # 1
    /\ Project(d)[2] + 1 < s.ship_count

RECURSIVE SumShips(_)
SumShips(es) ==
    IF es = << >> THEN 0 ELSE Head(es).ship_count + SumShips(Tail(es))

RECURSIVE LargestTurn(_)
LargestTurn(es) ==
    IF es = << >> THEN 0
    ELSE LET r == LargestTurn(Tail(es))
         IN  IF Head(es).turns_remaining > r THEN Head(es).turns_remaining ELSE r

\* ----- Properties of next_move (Spec) -----

\* C1: every move pushed carries at most (ship count of its origin) - 1
\* ships, and never goes to a planet that simulate_arrivals projects as
\* owned by faction 1.
C1_ProfitabilityGuard ==
    \A k \in 1..Len(moves) :
        /\ moves[k].ship_count <= PlanetNamed(moves[k].origin).ship_count - 1
        /\ Project(PlanetNamed(moves[k].destination))[1] # 1

\* C1 witness: a finished turn with a move that takes all but one ship of
\* its origin, while another planet projected as mine was left alone.
C1_Witness ==
    /\ pc = "done"
    /\ \E k \in 1..Len(moves) :
          moves[k].ship_count = PlanetNamed(moves[k].origin).ship_count - 1
    /\ \E i \in 1..Len(gamestate.planets) :
          /\ ~IsMine(gamestate.planets[i])
          /\ Project(gamestate.planets[i])[1] = 1

\* C2: no origin name appears twice in the move list.
C2_OneLaunchPerSource ==
    \A j, k \in 1..Len(moves) : j # k => moves[j].origin # moves[k].origin

\* C2 witness: a finished turn with three moves.
C2_Witness ==
    /\ pc = "done"
    /\ Len(moves) = 3

\* C3 (as claimed): in every round after the first, no remaining candidate
\* pair has a strictly smaller cost than the pair about to be committed.
C3_LaterRoundsMinimalCost ==
    (pc = "loop" /\ Len(moves) >= 1 /\ best_move # None) =>
        \A i \in 1..Len(gamestate.planets), j \in 1..Len(gamestate.planets) :
            LET s  == gamestate.planets[i]
                d  == gamestate.planets[j]
                sc == score(s, d, gamestate)
            IN  (IsMine(s) /\ s.name \notin used_planets /\ ~IsMine(d) /\ sc[2] # 0)
                    => best_move[1].score[2] <= sc[2]

\* C4: the first move is a profitable pair of minimal cost among the
\* profitable pairs of my planets and the other planets, and among the
\* profitable pairs of that cost it is the first in enumeration order
\* (my planets in snapshot order outside, other planets inside).
C4_FirstMoveGlobalMinimum ==
    Len(moves) >= 1 =>
        LET bs == RefOfName(moves[1].origin)
            bd == RefOfName(moves[1].destination)
            b  == score(gamestate.planets[bs], gamestate.planets[bd], gamestate)
        IN  /\ IsMine(gamestate.planets[bs])
            /\ ~IsMine(gamestate.planets[bd])
            /\ Profitable(gamestate.planets[bs], gamestate.planets[bd])
            /\ moves[1].ship_count = b[1]
            /\ \A i \in 1..Len(gamestate.planets), j \in 1..Len(gamestate.planets) :
                   LET sc == score(gamestate.planets[i], gamestate.planets[j], gamestate)
                   IN  (/\ IsMine(gamestate.planets[i])
                        /\ ~IsMine(gamestate.planets[j])
                        /\ Profitable(gamestate.planets[i], gamestate.planets[j]))
                          => /\ b[2] <= sc[2]
                             /\ b[2] = sc[2] => (bs < i \/ (bs = i /\ bd <= j))

\* The snapshot with one more expedition: the ships of move m, owned by
\* faction 1, landing after ceil(distance) turns; expeditions landing later
\* are left out, so that the replay ends with this arrival.
WithMove(m) ==
    LET src == PlanetNamed(m.origin)
        dst == PlanetNamed(m.destination)
        t   == CeilSqrt(distance_between_planets_sq(src, dst))
        before == SelectSeq(gamestate.expeditions,
                            LAMBDA e : e.turns_remaining <= t)
    IN  [planets |-> gamestate.planets,
         expeditions |-> Append(before,
             [id |-> Len(gamestate.expeditions) + 1,
              origin |-> m.origin,
              destination |-> m.destination,
              turns_remaining |-> t,
              owner |-> 1,
              ship_count |-> m.ship_count])]

\* C5 (as claimed): the ships of every move capture its destination when
\* they land: the replay of the destination up to that arrival ends with
\* owner 1.
C5_CommittedForceCaptures ==
    pc = "done" =>
        \A k \in 1..Len(moves) :
            simulate_arrivals(PlanetNamed(moves[k].destination),
                              WithMove(moves[k]))[1] = 1

\* C10: the move list is empty when no planet is mine, when no planet is
\* not mine, or when every planet that is not mine is projected as mine.
C10_EmptyTurn ==
    (/\ pc = "done"
     /\ \/ \A i \in 1..Len(gamestate.planets) : ~IsMine(gamestate.planets[i])
        \/ \A i \in 1..Len(gamestate.planets) : IsMine(gamestate.planets[i])
        \/ \A i \in 1..Len(gamestate.planets) :
              ~IsMine(gamestate.planets[i]) => Project(gamestate.planets[i])[1] = 1)
        => moves = << >>

\* C10 witness: a finished turn on a snapshot with a planet of mine holding
\* the largest garrison and a planet of faction 2 that an expedition of mine
\* is projected to capture.
C10_Witness ==
    /\ pc = "done"
    /\ moves = << >>
    /\ \E i \in 1..Len(gamestate.planets) :
          /\ IsMine(gamestate.planets[i])
          /\ gamestate.planets[i].ship_count = MaxGarrison
    /\ \E i \in 1..Len(gamestate.planets) : gamestate.planets[i].owner = Some(2)
    /\ \A i \in 1..Len(gamestate.planets) :
          ~IsMine(gamestate.planets[i]) => Project(gamestate.planets[i])[1] = 1

\* ----- Properties of simulate_arrivals (SpecSim) -----

\* The planet and the single expedition of the example: faction 1 with 3
\* ships, attacked by 5 ships of faction 2 landing in 2 turns.
C6_Case ==
    /\ pc = "returned"
    /\ planet.owner = Some(1)
    /\ planet.ship_count = 3
    /\ Len(Incoming) = 1
    /\ Incoming[1].owner = 2
    /\ Incoming[1].ship_count = 5
    /\ Incoming[1].turns_remaining = 2

\* C6 (as claimed): the example returns (2, 0).
C6_ExampleAsClaimed == C6_Case => result = << 2, 0 >>

\* C6 (amended): the example returns (0, 0), the planet is left neutral
\* and empty.
C6_ExampleAnnihilation == C6_Case => result = << 0, 0 >>

\* C6 witness: the example has been replayed.
C6_Witness == C6_Case /\ growth = 2

\* C7: with no expedition travelling to the planet the result is the
\* planet's owner (0 when absent) and ship count, whatever travels to the
\* other planets.
C7_NoContact ==
    (pc = "returned" /\ Incoming = << >>) =>
        result = << (IF planet.owner = None THEN 0 ELSE planet.owner[1]),
                    planet.ship_count >>

\* C7 witness: an unowned planet was projected while two expeditions were
\* travelling to another planet.
C7_Witness ==
    /\ pc = "returned"
    /\ Incoming = << >>
    /\ planet.owner = None
    /\ planet.ship_count > 0
    /\ Len(gamestate.expeditions) = 2

\* C8: no value of the replay is negative: the turns between two arrivals,
\* the growth added, the ship count after every step and in the result.
C8_NonNegative ==
    /\ growth >= 0
    /\ ship_count >= 0
    /\ (pc = "replay" /\ relevant_expeditions # << >>) =>
          Head(relevant_expeditions).turns_remaining - last_simulated_turn >= 0
    /\ pc = "returned" => result[2] >= 0

\* C8 witness: two expeditions listed latest first were replayed, the
\* planet grew between them and lost ships to them.
C8_Witness ==
    /\ pc = "returned"
    /\ Len(Incoming) = 2
    /\ Incoming[1].turns_remaining > Incoming[2].turns_remaining
    /\ growth > 0
    /\ result[1] = unwrap_or(planet.owner, 0)
    /\ result[1] # 0
    /\ result[2] < planet.ship_count

\* C9: an owned planet that only receives expeditions of its owner keeps
\* its owner and ends with its ship count plus the largest turns_remaining
\* plus the ships of the expeditions, which is more than it started with
\* as soon as there is one expedition.
C9_GrowthMonotone ==
    (/\ pc = "returned"
     /\ planet.owner # None
     /\ planet.owner[1] # 0
     /\ \A k \in 1..Len(Incoming) : Incoming[k].owner = planet.owner[1])
        => /\ result[1] = planet.owner[1]
           /\ result[2] = planet.ship_count + LargestTurn(Incoming) + SumShips(Incoming)
           /\ Len(Incoming) >= 1 => result[2] > planet.ship_count

\* C9 witness: a planet of faction 2 received two reinforcements at
\* different turns.
C9_Witness ==
    /\ pc = "returned"
    /\ planet.owner = Some(2)
    /\ Len(Incoming) = 2
    /\ Incoming[1].owner = 2
    /\ Incoming[2].owner = 2
    /\ Incoming[1].turns_remaining # Incoming[2].turns_remaining
    /\ result[2] > planet.ship_count + 2

\* ----- Properties of simulate_arrivals (SpecSim), continued -----

\* One iteration of the loop: the first expedition left is processed.
ArrivalStep ==
    /\ pc = "replay"
    /\ relevant_expeditions # << >>
    /\ relevant_expeditions' = Tail(relevant_expeditions)

\* C14: in every arrival step, with g the ship count after the growth step
\* and s the ships of the expedition: an expedition of the current owner of
\* the replay adds s and keeps the owner; any other one takes the planet
\* with s - g ships when g < s, leaves it unowned and empty when g = s, and
\* leaves the owner with g - s ships when g > s.
C14_ArrivalCases ==
    [][ArrivalStep =>
        LET e == Head(relevant_expeditions)
            g == ship_count + growth'
            s == e.ship_count
        IN  /\ e.owner = owner => (owner' = owner /\ ship_count' = g + s)
            /\ e.owner # owner =>
                 /\ g < s => (owner' = e.owner /\ ship_count' = s - g)
                 /\ g = s => (owner' = 0 /\ ship_count' = 0)
                 /\ g > s => (owner' = owner /\ ship_count' = g - s)]_vars

\* C14 witness: a planet of faction 1 was taken by faction 2 and then
\* received a second expedition of faction 2, which was added to the ships
\* left by the first.
C14_Witness ==
    /\ pc = "returned"
    /\ planet.owner = Some(1)
    /\ Len(Incoming) = 2
    /\ \E a, b \in 1..2 :
          /\ Incoming[a].owner = 2
          /\ Incoming[b].owner = 2
          /\ Incoming[a].turns_remaining < Incoming[b].turns_remaining
          /\ planet.ship_count + Incoming[a].turns_remaining < Incoming[a].ship_count
          /\ result = << 2, (Incoming[a].ship_count - planet.ship_count
                                - Incoming[a].turns_remaining)
                            + (Incoming[b].turns_remaining
                                - Incoming[a].turns_remaining)
                            + Incoming[b].ship_count >>

\* C15: the replay starts at turn 0; every step adds the turns since the
\* previous arrival when the planet has an owner at that point of the
\* replay and nothing when it has none, and moves the clock to the arrival;
\* the result is the pair reached by the last step, with no growth added.
C15_GrowthPerInterval ==
    [][/\ (pc = "call" /\ pc' = "replay") => last_simulated_turn' = 0
       /\ ArrivalStep =>
            /\ growth' = IF owner # 0
                         THEN Head(relevant_expeditions).turns_remaining
                                - last_simulated_turn
                         ELSE 0
            /\ last_simulated_turn' = Head(relevant_expeditions).turns_remaining
       /\ (pc = "replay" /\ pc' = "returned") =>
            result' = << owner, ship_count >>]_vars

\* C15 witness: a planet with an owner grew until the first expedition
\* emptied it, did not grow until the second and later expedition, which
\* took it with all its ships.
C15_Witness ==
    /\ pc = "returned"
    /\ planet.owner = Some(1)
    /\ Len(Incoming) = 2
    /\ \E a, b \in 1..2 :
          /\ Incoming[a].turns_remaining > 0
          /\ Incoming[a].turns_remaining < Incoming[b].turns_remaining
          /\ Incoming[a].owner # 1
          /\ Incoming[a].ship_count
                = planet.ship_count + Incoming[a].turns_remaining
          /\ Incoming[b].owner # 0
          /\ growth = 0
          /\ result = << Incoming[b].owner, Incoming[b].ship_count >>

\* C16: the list the loop runs over holds exactly the expeditions towards
\* the planet, in non-decreasing turns_remaining, those of equal
\* turns_remaining in the order of the snapshot (increasing id); each step
\* processes the first of the list.
C16_StableOrder ==
    [][(pc = "call" /\ pc' = "replay") =>
        LET r == relevant_expeditions'
            inc == Incoming'
        IN  /\ Len(r) = Len(inc)
            /\ \A k \in 1..Len(inc) : \E j \in 1..Len(r) : r[j] = inc[k]
            /\ \A a, b \in 1..Len(r) :
                  a < b =>
                     \/ r[a].turns_remaining < r[b].turns_remaining
                     \/ /\ r[a].turns_remaining = r[b].turns_remaining
                        /\ r[a].id < r[b].id]_vars

\* C16 witness: two expeditions of different owners arrive at the planet
\* in the same turn and the replay is about to process the one listed
\* first.
C16_Witness ==
    /\ pc = "replay"
    /\ Len(Incoming) = 2
    /\ Incoming[1].turns_remaining = Incoming[2].turns_remaining
    /\ Incoming[1].owner # Incoming[2].owner
    /\ relevant_expeditions = Incoming

\* Every expedition towards the planet has an owner and at least one ship.
FactionFleetsOnly ==
    \A k \in 1..Len(Incoming) :
        Incoming[k].owner # 0 /\ Incoming[k].ship_count >= 1

\* C19: when every expedition towards the planet has a non-zero owner and
\* at least one ship, then after the first of them is processed the ship
\* count is 0 only on a planet without owner, and a planet that received an
\* expedition and is projected with an owner needs at least 2 ships
\* (its projected ship count + 1).
C19_EmptyOnlyWhenNeutral ==
    (pc # "call" /\ Incoming # << >> /\ FactionFleetsOnly) =>
        /\ (pc = "replay" /\ Len(relevant_expeditions) < Len(Incoming)) =>
              (ship_count = 0 => owner = 0)
        /\ pc = "returned" =>
              /\ result[2] = 0 => result[1] = 0
              /\ result[1] # 0 => result[2] + 1 >= 2

\* C19 witness: a planet of faction 1 received two expeditions of the
\* factions and ended empty and without owner.
C19_Witness ==
    /\ pc = "returned"
    /\ planet.owner = Some(1)
    /\ Len(Incoming) = 2
    /\ FactionFleetsOnly
    /\ result = << 0, 0 >>

\* ----- Properties of next_move and score (Spec), continued -----

\* C11 (as claimed): when the turn is returned, every planet of mine that
\* has a profitable target among the planets that are not mine is the
\* origin of a move.
C11_NoProfitablePairLeft ==
    pc = "done" =>
        \A i \in 1..Len(gamestate.planets) :
            (/\ IsMine(gamestate.planets[i])
             /\ \E j \in 1..Len(gamestate.planets) :
                   /\ ~IsMine(gamestate.planets[j])
                   /\ Profitable(gamestate.planets[i], gamestate.planets[j]))
                => \E k \in 1..Len(moves) :
                       moves[k].origin = gamestate.planets[i].name

\* C12 (as claimed): once the pairs are scored, the cost returned by score
\* is 0 exactly for the pairs that fail one of the two conditions.
C12_ZeroMarksUnprofitable ==
    pc # "start" =>
      \A i \in 1..Len(gamestate.planets), j \in 1..Len(gamestate.planets) :
        (IsMine(gamestate.planets[i]) /\ ~IsMine(gamestate.planets[j]))
            => (score(gamestate.planets[i], gamestate.planets[j], gamestate)[2] = 0
                  <=> ~Profitable(gamestate.planets[i], gamestate.planets[j]))

\* The names of the planets of the snapshot.
PlanetNames == { gamestate.planets[i].name : i \in 1..Len(gamestate.planets) }

\* The snapshot without the expeditions whose destination is no planet.
Pruned ==
    [planets |-> gamestate.planets,
     expeditions |-> SelectSeq(gamestate.expeditions,
                               LAMBDA e : e.destination \in PlanetNames)]

\* An expedition names a destination or an origin that is no planet.
HasDangling ==
    \E k \in 1..Len(gamestate.expeditions) :
        \/ gamestate.expeditions[k].destination \notin PlanetNames
        \/ gamestate.expeditions[k].origin \notin PlanetNames

\* C13 (as claimed): on a snapshot with such an expedition next_move does
\* not return a turn.
C13_FailsFast == HasDangling => pc # "done"

\* C13 (amended): the turn is returned as usual; an expedition to an
\* absent destination changes no projection, and every move carries the
\* ships computed on the snapshot without these expeditions.
C13_DanglingIgnored ==
    /\ \A i \in 1..Len(gamestate.planets) :
          Project(gamestate.planets[i])
             = simulate_arrivals(gamestate.planets[i], Pruned)
    /\ \A k \in 1..Len(moves) :
          LET d == simulate_arrivals(PlanetNamed(moves[k].destination), Pruned)
          IN  /\ d[1] # 1
              /\ moves[k].ship_count = d[2] + 1

\* C13 witness: a turn with a move was returned although one expedition of
\* faction 1 travels to an absent planet and another one, from an absent
\* origin, travels to the destination of the move.
C13_Witness ==
    /\ pc = "done"
    /\ moves # << >>
    /\ \E k \in 1..Len(gamestate.expeditions) :
          /\ gamestate.expeditions[k].destination \notin PlanetNames
          /\ gamestate.expeditions[k].owner = 1
    /\ \E k \in 1..Len(gamestate.expeditions) :
          /\ gamestate.expeditions[k].destination = moves[1].destination
          /\ gamestate.expeditions[k].origin \notin PlanetNames

\* The square of the euclidean distance of two planets.
SquaredDistance(p, q) == (p.x - q.x) * (p.x - q.x) + (p.y - q.y) * (p.y - q.y)

\* k is the euclidean distance of p and q rounded up.
IsRoundedDistance(k, p, q) ==
    /\ k * k >= SquaredDistance(p, q)
    /\ k = 0 \/ (k - 1) * (k - 1) < SquaredDistance(p, q)

\* The pairs next_move scores: a planet of mine and one that is not mine.
ScoredPairs ==
    { ij \in (1..Len(gamestate.planets)) \X (1..Len(gamestate.planets)) :
        /\ IsMine(gamestate.planets[ij[1]])
        /\ ~IsMine(gamestate.planets[ij[2]]) }

\* C17: once the pairs are scored, score of a profitable pair is the
\* projected ship count of the destination + 1 and, as cost, that number
\* times the distance rounded up; of two profitable targets of one source
\* at the same rounded distance > 0, the one projected with fewer ships has
\* the strictly smaller cost.
C17_CostFormula ==
    pc # "start" =>
      /\ \A ij \in ScoredPairs :
            LET s == gamestate.planets[ij[1]]
                d == gamestate.planets[ij[2]]
            IN  Profitable(s, d) =>
                  \E k \in 0..(MaxX + MaxY + 2) :
                     /\ IsRoundedDistance(k, s, d)
                     /\ score(s, d, gamestate)
                           = << Project(d)[2] + 1, k * (Project(d)[2] + 1) >>
      /\ \A ij \in ScoredPairs, il \in ScoredPairs :
            LET s == gamestate.planets[ij[1]]
                d == gamestate.planets[ij[2]]
                e == gamestate.planets[il[2]]
            IN  (/\ ij[1] = il[1]
                 /\ Profitable(s, d) /\ Profitable(s, e)
                 /\ \E k \in 1..(MaxX + MaxY + 2) :
                       IsRoundedDistance(k, s, d) /\ IsRoundedDistance(k, s, e)
                 /\ Project(d)[2] < Project(e)[2])
                    => score(s, d, gamestate)[2] < score(s, e, gamestate)[2]

\* C17 witness: my only planet has two profitable targets, one diagonal
\* neighbour (distance sqrt 2) and one two cells away, both at rounded
\* distance 2; the nearer one is projected with fewer ships and is the
\* destination of the move.
C17_Witness ==
    /\ pc = "done"
    /\ Len(moves) = 1
    /\ \E ij \in ScoredPairs, il \in ScoredPairs :
          LET s == gamestate.planets[ij[1]]
              d == gamestate.planets[ij[2]]
              e == gamestate.planets[il[2]]
          IN  /\ ij[1] = il[1]
              /\ Profitable(s, d) /\ Profitable(s, e)
              /\ SquaredDistance(s, d) = 2
              /\ SquaredDistance(s, e) = 4
              /\ Project(d)[2] < Project(e)[2]
              /\ moves[1] = [origin |-> s.name, destination |-> d.name,
                             ship_count |-> Project(d)[2] + 1]

\* C18: no step changes the snapshot, a committed move is added at the end
\* of the list and its origin to the used planets, the earlier moves are
\* kept, and every move of the list carries the projected ship count of its
\* destination + 1, so two moves towards one destination carry the same
\* ship count.
C18_CommitFrame ==
    [][/\ gamestate' = gamestate
       /\ (pc = "loop" /\ pc' = "loop") =>
             /\ Len(moves') = Len(moves) + 1
             /\ SubSeq(moves', 1, Len(moves)) = moves
             /\ used_planets' = used_planets \cup { moves'[Len(moves')].origin }
       /\ \A k \in 1..Len(moves') :
             moves'[k].ship_count
                = simulate_arrivals(CHOOSE q \in { gamestate.planets[i] :
                                                     i \in 1..Len(gamestate.planets) } :
                                        q.name = moves'[k].destination,
                                    gamestate)[2] + 1
       /\ \A k, l \in 1..Len(moves') :
             moves'[k].destination = moves'[l].destination
                => moves'[k].ship_count = moves'[l].ship_count]_vars

\* C18 witness: two planets of mine were sent to the same destination with
\* the same number of ships.
C18_Witness ==
    /\ pc = "done"
    /\ Len(moves) = 2
    /\ moves[1].destination = moves[2].destination
    /\ moves[1].origin # moves[2].origin
    /\ moves[1].ship_count = moves[2].ship_count
    /\ moves[1].ship_count >= 2

\* The planets of mine that are not the origin of a move yet.
UnusedSources ==
    { i \in 1..Len(gamestate.planets) :
        /\ IsMine(gamestate.planets[i])
        /\ gamestate.planets[i].name \notin used_planets }

\* The number of planets of mine.
OwnedCount ==
    Cardinality({ i \in 1..Len(gamestate.planets) : IsMine(gamestate.planets[i]) })

\* C20: every round of the loop takes one planet out of the unused sources
\* and adds no other, the number of moves never exceeds the number of
\* planets of mine, and the call reaches its return.
C20_LoopTerminates ==
    /\ [][(pc = "loop" /\ pc' = "loop") =>
             /\ UnusedSources' \subseteq UnusedSources
             /\ Cardinality(UnusedSources') = Cardinality(UnusedSources) - 1
             /\ Len(moves') <= OwnedCount]_vars
    /\ <>(pc = "done")

\* C20 witness: the call returned after as many rounds as I have planets,
\* three of them.
C20_Witness ==
    /\ pc = "done"
    /\ OwnedCount = 3
    /\ Len(moves) = 3
    /\ UnusedSources = {}

====
